---- MODULE Spec2Model ----
(***************************************************************************)
(* Model of the AI-text detector of shadabchow-ui/ai-detector-cf:          *)
(* the scoring engine and POST handler of functions/api/detect.ts.         *)
(*                                                                         *)
(* Representation.                                                         *)
(*  - A JavaScript string is a sequence of characters; a character is a    *)
(*    one-element name: "a", "A", ".", " ", ...  The non-ASCII letters     *)
(*    e-acute and E-acute are written "U+00E9" and "U+00C9".               *)
(*  - A JavaScript number that is not an integer is kept in fixed point:   *)
(*    the integer n stands for n / Scale, and every division rounds down.  *)
(*    The literal 0.34 of the source is 340 here, 4.7 is 4700.             *)
(***************************************************************************)
EXTENDS Integers, Sequences, FiniteSets, TLC

VARIABLES
  eval,   \* one evaluation of the engine's functions on one input
  pc,     \* pc[r]: where the handler is for request r
  body,   \* body[r]: the body request r arrived with
  resp,   \* resp[r]: the response the handler returned for request r
  calls,  \* calls[r]: the engine functions the handler ran for request r
  ui      \* the state of one browser page: one of the three App components

vars == <<eval, pc, body, resp, calls, ui>>

(***************************************************************************)
(* Bounds of the model.                                                    *)
(***************************************************************************)
\* longest text enumerated exhaustively for the pure functions
MaxLen == 4
\* number of requests that can be in flight together
NumReqs == 2

\* fixed-point resolution: the integer n stands for the number n / Scale
Scale == 10 * 10 * 10

(***************************************************************************)
(* Characters and the character classes the regular expressions use.       *)
(***************************************************************************)
AsciiLower ==
  {"a", "b", "c", "d", "e", "f", "h", "l", "m", "o", "p", "s", "t", "y"}
AsciiUpper == {"A", "C"}
AsciiDigit == {"1"}
NonAsciiLower == {"U+00E9"}
NonAsciiUpper == {"U+00C9"}
Whitespace == {" ", "\n"}
Terminator == {".", "!", "?"}
Punct == {".", ",", "!", "?", ";", ":"}

\* \p{L}: any Unicode letter
UnicodeLetter == AsciiLower \cup AsciiUpper \cup NonAsciiLower \cup NonAsciiUpper
\* \p{N}: any Unicode digit
UnicodeDigit == AsciiDigit
\* the class [\p{L}\p{N}'-] of the tokenizer
TokenClass == UnicodeLetter \cup UnicodeDigit \cup {"'", "-"}
\* \w as \b understands it under the flags "gu": [A-Za-z0-9_] only
WordChar == AsciiLower \cup AsciiUpper \cup AsciiDigit \cup {"_"}

\* String.prototype.toLowerCase on one character
lowerChar(c) ==
  CASE c = "A" -> "a"
    [] c = "C" -> "c"
    [] c = "U+00C9" -> "U+00E9"
    [] OTHER -> c

toLowerCase(s) == [i \in 1..Len(s) |-> lowerChar(s[i])]

(***************************************************************************)
(* Fixed-point helpers.                                                    *)
(***************************************************************************)
Abs(n) == IF n < 0 THEN -n ELSE n
Max(a, b) == IF a >= b THEN a ELSE b
Min(a, b) == IF a <= b THEN a ELSE b
\* the value of a division by zero (NaN or an infinity): it lies outside
\* every range the engine works in
NotFinite == -(Scale * Scale)
\* a * b on fixed-point numbers
Mul(a, b) == (a * b) \div Scale
\* a / b: the operands are both integers or both fixed-point numbers, the
\* quotient is a fixed-point number
Div(a, b) == IF b = 0 THEN NotFinite ELSE (a * Scale) \div b

\* largest k with k * k <= n  (Math.sqrt, rounded down), by bisection:
\* lo * lo <= n < hi * hi throughout
RECURSIVE sqrtBetween(_, _, _)
sqrtBetween(n, lo, hi) ==
  IF hi - lo <= 1 THEN lo
  ELSE LET mid == (lo + hi) \div 2
       IN IF mid * mid <= n THEN sqrtBetween(n, mid, hi)
          ELSE sqrtBetween(n, lo, mid)
Sqrt(n) == sqrtBetween(n, 0, 46341)

\* s[lo] + ... + s[hi], by halving the range
RECURSIVE SumRange(_, _, _)
SumRange(s, lo, hi) ==
  IF lo > hi THEN 0
  ELSE IF lo = hi THEN s[lo]
  ELSE LET mid == (lo + hi) \div 2
       IN SumRange(s, lo, mid) + SumRange(s, mid + 1, hi)
\* nums.reduce((a, b) => a + b, 0)
SumSeq(s) == SumRange(s, 1, Len(s))

\* ss[lo] \o ... \o ss[hi], by halving the range
RECURSIVE ConcatRange(_, _, _)
ConcatRange(ss, lo, hi) ==
  IF lo > hi THEN <<>>
  ELSE IF lo = hi THEN ss[lo]
  ELSE LET mid == (lo + hi) \div 2
       IN ConcatRange(ss, lo, mid) \o ConcatRange(ss, mid + 1, hi)
Flatten(ss) == ConcatRange(ss, 1, Len(ss))

\* the indices of s, in increasing order
Positions(s) == [i \in 1..Len(s) |-> i]

\* the elements of a finite set, in some order
RECURSIVE SetToSeq(_)
SetToSeq(S) ==
  IF S = {} THEN <<>>
  ELSE LET x == CHOOSE x \in S : TRUE IN <<x>> \o SetToSeq(S \ {x})

\* mutant: the clamp is dropped
clamp01_unclamped(n) == n

\* Math.max(0, Math.min(1, n)); NaN stays NaN
clamp01(n) == IF n = NotFinite THEN NotFinite ELSE Max(0, Min(Scale, n))

(***************************************************************************)
(* tokenizeWords: text.toLowerCase().match(/\b[\p{L}\p{N}'-]+\b/gu) ?? []  *)
(***************************************************************************)
\* \b at position p (between s[p] and s[p+1]); outside the string counts
\* as a non-word character
Boundary(s, p) ==
  LET before == p >= 1 /\ s[p] \in WordChar
      after == p < Len(s) /\ s[p + 1] \in WordChar
  IN before # after

\* the last index of the run of class characters that starts at index i
\* (i - 1 when s[i] is not in the class)
RECURSIVE runEnd(_, _)
runEnd(s, i) ==
  IF i <= Len(s) /\ s[i] \in TokenClass THEN runEnd(s, i + 1) ELSE i - 1

\* the end of the match that starts at index i, or 0 when there is none:
\* [..]+ is greedy and backtracks to the longest run that ends on a \b
MatchEnd(s, i) ==
  LET ends == {j \in i..runEnd(s, i) : Boundary(s, j)}
  IN IF Boundary(s, i - 1) /\ ends # {}
       THEN CHOOSE j \in ends : \A e \in ends : e <= j
       ELSE 0

\* the matches found scanning left to right from index i up to index last
\* (flag g: after a match the scan resumes behind it, else one further)
RECURSIVE matchFrom(_, _, _)
matchFrom(s, i, last) ==
  IF i > last THEN <<>>
  ELSE LET e == MatchEnd(s, i)
       IN IF e = 0 THEN matchFrom(s, i + 1, last)
          ELSE <<SubSeq(s, i, e)>> \o matchFrom(s, e + 1, last)

\* all matches in s.  A match lies inside one maximal run of class
\* characters, so the scan is done run by run.
matchAll(s) ==
  LET starts == SelectSeq(Positions(s), LAMBDA i :
                  s[i] \in TokenClass /\ (i = 1 \/ s[i - 1] \notin TokenClass))
  IN Flatten([k \in 1..Len(starts) |->
                matchFrom(s, starts[k], runEnd(s, starts[k]))])

\* mutant: one regular expression shared by all requests, whose scan
\* starts where the requests before it left off
tokenizeWords_shared(text) ==
  LET lastIndex == Cardinality({r \in 1..NumReqs : pc[r] = "done"})
  IN matchAll(SubSeq(toLowerCase(text), lastIndex + 1, Len(text)))

tokenizeWords(text) == matchAll(toLowerCase(text))

(***************************************************************************)
(* splitSentences                                                          *)
(***************************************************************************)
\* mutant: no trimming
trim_none(s) == s

\* String.prototype.trim
RECURSIVE trimStart(_)
trimStart(s) ==
  IF s # <<>> /\ Head(s) \in Whitespace THEN trimStart(Tail(s)) ELSE s
RECURSIVE trimEnd(_)
trimEnd(s) ==
  IF s # <<>> /\ s[Len(s)] \in Whitespace
    THEN trimEnd(SubSeq(s, 1, Len(s) - 1)) ELSE s
trim(s) == trimEnd(trimStart(s))

\* mutant: whitespace runs are kept as they are
collapseWhitespace_none(s) == s

\* .replace(/\s+/g, ' '): every whitespace run becomes one space
collapseWhitespace(s) ==
  LET kept == SelectSeq(Positions(s), LAMBDA i :
                s[i] \notin Whitespace \/ i = 1 \/ s[i - 1] \notin Whitespace)
  IN [k \in 1..Len(kept) |->
        IF s[kept[k]] \in Whitespace THEN " " ELSE s[kept[k]]]

\* the last index of the whitespace run that starts at index i
RECURSIVE spaceEnd(_, _)
spaceEnd(s, i) ==
  IF i < Len(s) /\ s[i + 1] \in Whitespace THEN spaceEnd(s, i + 1) ELSE i

\* mutant: .split(/\s+/), a cut at every whitespace run
split_any(s) ==
  LET cuts == SelectSeq(Positions(s), LAMBDA i :
                s[i] \in Whitespace /\ i > 1 /\ s[i - 1] \notin Whitespace)
      from(k) == IF k = 1 THEN 1 ELSE spaceEnd(s, cuts[k - 1]) + 1
      to(k) == IF k = Len(cuts) + 1 THEN Len(s) ELSE cuts[k] - 1
  IN [k \in 1..(Len(cuts) + 1) |-> SubSeq(s, from(k), to(k))]

\* .split(/(?<=[.!?])\s+/): cut out every whitespace run that follows a
\* terminator; the pieces are what lies between the cuts
split(s) ==
  LET cuts == SelectSeq(Positions(s), LAMBDA i :
                s[i] \in Whitespace /\ i > 1 /\ s[i - 1] \in Terminator)
      from(k) == IF k = 1 THEN 1 ELSE spaceEnd(s, cuts[k - 1]) + 1
      to(k) == IF k = Len(cuts) + 1 THEN Len(s) ELSE cuts[k] - 1
  IN [k \in 1..(Len(cuts) + 1) |-> SubSeq(s, from(k), to(k))]

splitSentences(text) ==
  LET pieces == split(collapseWhitespace(text))
      trimmed == [i \in 1..Len(pieces) |-> trim(pieces[i])]
  IN SelectSeq(trimmed, LAMBDA p : p # <<>>)

(***************************************************************************)
(* stddev, computeSignals                                                  *)
(***************************************************************************)
\* sample standard deviation (N-1 denominator), as a fixed-point number.
\* sum (b - mean)^2 = (n * sum b^2 - (sum b)^2) / n, kept exact until the
\* square root.
stddev(nums) ==
  IF Len(nums) <= 1 THEN 0
  ELSE LET n == Len(nums)
           sum == SumSeq(nums)
           sumSq == SumSeq([i \in 1..n |-> nums[i] * nums[i]])
       IN Sqrt(((n * sumSq - sum * sum) * Scale * Scale) \div (n * (n - 1)))

\* the 1e-6 added to the mean sentence length, in fixed point (it is
\* below the resolution)
Epsilon == Scale \div (Scale * Scale)

\* mutant: a sentence without tokens counts as a sample of length 0
sentenceLens_unfiltered(text) ==
  LET sentences == splitSentences(text)
  IN [i \in 1..Len(sentences) |-> Len(tokenizeWords(sentences[i]))]

\* line 48: the token count of every sentence that has tokens
sentenceLens(text) ==
  LET sentences == splitSentences(text)
  IN SelectSeq([i \in 1..Len(sentences) |->
                  Len(tokenizeWords(sentences[i]))], LAMBDA n : n > 0)

\* line 50
burstiness(text) ==
  LET lens == sentenceLens(text)
  IN IF Len(lens) # 0
       THEN clamp01(Div(stddev(lens),
                        Div(SumSeq(lens), Len(lens)) + Epsilon))
       ELSE 0

\* mutant: the ratio is smoothed by one more token
unique_word_ratio_smoothed(words) ==
  LET length == Len(words)
      uniq == {words[i] : i \in 1..length}
  IN IF length # 0 THEN clamp01(Div(Cardinality(uniq), length + 1)) ELSE 0

\* mutant: the guard on length is dropped
unique_word_ratio_unguarded(words) ==
  clamp01(Div(Cardinality({words[i] : i \in 1..Len(words)}), Len(words)))

\* lines 52-53
unique_word_ratio(words) ==
  LET length == Len(words)
      uniq == {words[i] : i \in 1..length}
  IN IF length # 0 THEN clamp01(Div(Cardinality(uniq), length)) ELSE 0

\* mutant: the repeats are divided by the number of distinct tokens
repetition_perKey(words) ==
  LET length == Len(words)
      uniq == {words[i] : i \in 1..length}
  IN IF length # 0
       THEN clamp01(Div(length - Cardinality(uniq), Cardinality(uniq)))
       ELSE 0

\* mutant: a word that repeats counts once, however often it repeats
repetition_distinct(words) ==
  LET length == Len(words)
      repeated == {w \in {words[i] : i \in 1..length} :
                     Cardinality({i \in 1..length : words[i] = w}) > 1}
  IN IF length # 0 THEN clamp01(Div(Cardinality(repeated), length)) ELSE 0

\* lines 56-59
repetition(words) ==
  LET length == Len(words)
      keys == SetToSeq({words[i] : i \in 1..length})
      counts == [k \in 1..Len(keys) |->
                   Cardinality({i \in 1..length : words[i] = keys[k]})]
      repeats == SumSeq([k \in 1..Len(keys) |-> Max(0, counts[k] - 1)])
  IN IF length # 0 THEN clamp01(Div(repeats, length)) ELSE 0

\* lines 61-62
punctuation_rate(text) ==
  LET punct == Cardinality({i \in 1..Len(text) : text[i] \in Punct})
  IN IF Len(text) # 0 THEN clamp01(Div(punct, Len(text))) ELSE 0

\* mutant: the guard on length is dropped
avg_word_len_unguarded(words) ==
  Div(SumSeq([i \in 1..Len(words) |-> Len(words[i])]), Len(words))

\* line 64
avg_word_len(words) ==
  LET length == Len(words)
  IN IF length # 0
       THEN Div(SumSeq([i \in 1..length |-> Len(words[i])]), length)
       ELSE 0

computeSignals(text) ==
  LET words == tokenizeWords(text)
  IN [length |-> Len(words),
      burstiness |-> burstiness(text),
      repetition |-> repetition(words),
      punctuation_rate |-> punctuation_rate(text),
      avg_word_len |-> avg_word_len(words),
      unique_word_ratio |-> unique_word_ratio(words)]

(***************************************************************************)
(* scoreAI                                                                 *)
(***************************************************************************)
\* mutant: > in place of >=
confidenceOf_strict(ai_probability) ==
  IF ai_probability > 800 THEN "high"
  ELSE IF ai_probability > 550 THEN "medium" ELSE "low"

\* line 108
confidenceOf(ai_probability) ==
  IF ai_probability >= 800 THEN "high"
  ELSE IF ai_probability >= 550 THEN "medium" ELSE "low"

\* line 78
lowBurst(signals) == clamp01(Scale - signals.burstiness)

\* mutant: the repetition saturates at 0.11
rep_half(signals) == clamp01(Div(signals.repetition, 110))

\* line 79
rep(signals) == clamp01(Div(signals.repetition, 220))

\* line 80
lowUnique(signals) == clamp01(Div(620 - signals.unique_word_ratio, 250))

\* line 83
punctMid(signals) ==
  Scale - clamp01(Div(Abs(signals.punctuation_rate - 30), 30))

\* line 86
wordLenMid(signals) ==
  Scale - clamp01(Div(Abs(signals.avg_word_len - 4700), 2000))

\* mutant: the length factor of heuristicScoreForHighlight (App.tsx)
lengthFactor_highlight(length) == clamp01(Div(length - 12, 80))

\* line 89
lengthFactor(length) == clamp01(Div(length - 40, 260))

\* mutant: the weights of heuristicScoreForHighlight (App.tsx)
raw_highlight(signals) ==
  (360 * lowBurst(signals) + 280 * rep(signals) + 180 * lowUnique(signals)
     + 100 * punctMid(signals) + 80 * wordLenMid(signals)) \div Scale

\* lines 92-97
raw(signals) ==
  (340 * lowBurst(signals) + 260 * rep(signals) + 200 * lowUnique(signals)
     + 100 * punctMid(signals) + 100 * wordLenMid(signals)) \div Scale

\* mutant: a short text is not damped
dampen_none(rawScore, factor) == clamp01(rawScore)

\* line 99: clamp01(raw * (0.55 + 0.45 * lengthFactor))
dampen(rawScore, factor) == clamp01(Mul(rawScore, 550 + Mul(450, factor)))

scoreAI(signals) ==
  LET length == signals.length
      ai_probability == dampen(raw(signals), lengthFactor(length))
      notes ==
        (IF length < 40 THEN <<"short">> ELSE <<>>)
        \o (IF lowBurst(signals) > 750 THEN <<"low burstiness">> ELSE <<>>)
        \o (IF signals.repetition > 180 THEN <<"repetition">> ELSE <<>>)
        \o (IF signals.unique_word_ratio < 500
              THEN <<"lexical diversity">> ELSE <<>>)
        \o <<"indicator">>
  IN [ai_probability |-> ai_probability,
      confidence |-> confidenceOf(ai_probability),
      notes |-> notes]

(***************************************************************************)
(* Inputs.                                                                 *)
(***************************************************************************)
\* n copies of the string w, one after the other
Repeat(w, n) == [i \in 1..(n * Len(w)) |-> w[((i - 1) % Len(w)) + 1]]

\* all strings of at most n characters over the alphabet A
StringsUpTo(A, n) == UNION {[1..k -> A] : k \in 0..n}

EngineAlphabet == {"a", "b", "A", "U+00E9", "'", ".", ",", " "}

\* texts long enough for the length factor to leave 0: one sentence of n
\* five-letter words, and one sentence per word
LongTexts ==
  {Repeat(<<"a", "a", "a", "a", "a", " ">>, n) : n \in {60, 185, 300}}
  \cup {Repeat(<<"a", "b", ".", " ">>, n) : n \in {45}}

\* a sentence of one token followed by a sentence of six: the standard
\* deviation of the sentence lengths exceeds their mean
BurstyText ==
  <<"a", ".", " ", "b", " ", "b", " ", "b", " ", "b", " ", "b", " ", "b">>

EngineTexts ==
  StringsUpTo(EngineAlphabet, MaxLen) \cup LongTexts \cup {BurstyText}

\* signal vectors handed to scoreAI directly: a text of length tokens of
\* which distinct are different has unique_word_ratio = distinct / length
\* and repetition = (length - distinct) / length
SignalVector(len, distinct, b, p, w) ==
  [length |-> len, burstiness |-> b,
   repetition |-> Div(len - distinct, len),
   punctuation_rate |-> p,
   avg_word_len |-> w,
   unique_word_ratio |-> Div(distinct, len)]

SignalVectors ==
  {SignalVector(l, Max(1, (l * u) \div 10), b, p, w) :
     l \in {5, 40, 41, 184, 185, 300, 400}, u \in {1, 3, 5, 10},
     b \in {0, 250, 1000}, p \in {0, 30, 45, 500},
     w \in {1000, 4700, 5700}}

\* no page is open
NoUI == [variant |-> "none"]
NoSignals == [length |-> 0]
NoScore == [notes |-> <<>>]

\* from: "text" when the evaluation starts from a text, "vector" when it
\* starts from a signal vector
EvalOf(from, stage, t, words, sentences, signals, scored) ==
  [from |-> from, stage |-> stage, text |-> t, words |-> words,
   sentences |-> sentences, signals |-> signals, scored |-> scored]

(***************************************************************************)
(* The engine's functions, applied one after the other to one input.       *)
(***************************************************************************)
InitEngine ==
  /\ eval \in {EvalOf("text", "text", t, <<>>, <<>>, NoSignals, NoScore) :
                 t \in EngineTexts}
            \cup {EvalOf("vector", "signals", <<>>, <<>>, <<>>, v, NoScore) :
                 v \in SignalVectors}
  /\ pc = [r \in 1..NumReqs |-> "idle"]
  /\ body = [r \in 1..NumReqs |-> [json |-> "none"]]
  /\ resp = [r \in 1..NumReqs |-> [status |-> 0]]
  /\ calls = [r \in 1..NumReqs |-> <<>>]
  /\ ui = NoUI

ApplyTokenizeWords ==
  /\ eval.stage = "text"
  /\ eval' = [eval EXCEPT !.stage = "tokenized",
                          !.words = tokenizeWords(eval.text)]
  /\ UNCHANGED <<pc, body, resp, calls, ui>>

ApplySplitSentences ==
  /\ eval.stage = "tokenized"
  /\ eval' = [eval EXCEPT !.stage = "segmented",
                          !.sentences = splitSentences(eval.text)]
  /\ UNCHANGED <<pc, body, resp, calls, ui>>

ApplyComputeSignals ==
  /\ eval.stage = "segmented"
  /\ eval' = [eval EXCEPT !.stage = "signals",
                          !.signals = computeSignals(eval.text)]
  /\ UNCHANGED <<pc, body, resp, calls, ui>>

ApplyScoreAI ==
  /\ eval.stage = "signals"
  /\ eval' = [eval EXCEPT !.stage = "scored",
                          !.scored = scoreAI(eval.signals)]
  /\ UNCHANGED <<pc, body, resp, calls, ui>>

\* the engine scores the next signal vector
ScoreNext(v) ==
  /\ eval.stage = "scored"
  /\ eval.from = "vector"
  /\ eval' = [eval EXCEPT !.signals = v, !.scored = scoreAI(v)]
  /\ UNCHANGED <<pc, body, resp, calls, ui>>

NextEngine ==
  \/ ApplyTokenizeWords
  \/ ApplySplitSentences
  \/ ApplyComputeSignals
  \/ ApplyScoreAI
  \/ \E v \in SignalVectors : ScoreNext(v)

SpecEngine == InitEngine /\ [][NextEngine]_vars

(***************************************************************************)
(* scoreAI on signal vectors whose fields vary one at a time.              *)
(***************************************************************************)
Lengths == {0, 5, 40, 41, 170, 299, 300, 400}
\* 0 to 0.22 in steps of 0.022, and one value beyond
Repetitions == {22 * k : k \in 0..10} \cup {500}

ScoreVectors ==
  {[length |-> l, burstiness |-> b, repetition |-> r,
    punctuation_rate |-> p, avg_word_len |-> w, unique_word_ratio |-> u] :
     l \in Lengths, b \in {0, 400, 1000}, r \in Repetitions,
     p \in {0, 30, 60}, w \in {0, 4700, 6000}, u \in {0, 500, 1000}}

InitScore ==
  /\ eval \in {EvalOf("vector", "signals", <<>>, <<>>, <<>>, v, NoScore) :
                 v \in ScoreVectors}
  /\ pc = [r \in 1..NumReqs |-> "idle"]
  /\ body = [r \in 1..NumReqs |-> [json |-> "none"]]
  /\ resp = [r \in 1..NumReqs |-> [status |-> 0]]
  /\ calls = [r \in 1..NumReqs |-> <<>>]
  /\ ui = NoUI

\* scoreAI is given the same vector with a higher repetition
RaiseRepetition(r) ==
  /\ eval.stage = "scored"
  /\ eval.from = "vector"
  /\ r > eval.signals.repetition
  /\ LET v == [eval.signals EXCEPT !.repetition = r]
     IN eval' = [eval EXCEPT !.signals = v, !.scored = scoreAI(v)]
  /\ UNCHANGED <<pc, body, resp, calls, ui>>

\* scoreAI is given the same vector with a higher length
Lengthen(l) ==
  /\ eval.stage = "scored"
  /\ eval.from = "vector"
  /\ l > eval.signals.length
  /\ LET v == [eval.signals EXCEPT !.length = l]
     IN eval' = [eval EXCEPT !.signals = v, !.scored = scoreAI(v)]
  /\ UNCHANGED <<pc, body, resp, calls, ui>>

NextScore ==
  \/ ApplyScoreAI
  \/ \E r \in Repetitions : RaiseRepetition(r)
  \/ \E l \in Lengths : Lengthen(l)

SpecScore == InitScore /\ [][NextScore]_vars

(***************************************************************************)
(* The engine's functions on texts with line breaks and on the two         *)
(* end-to-end texts.                                                       *)
(***************************************************************************)
SegmentAlphabet == {"a", ".", " ", "\n"}

SegmentTexts ==
  { <<" ", "a", ".", " ", "\n", " ", "b", "!", " ", "a", "?", "\n">>,
    <<"a", ".", "b", " ", ".", " ", "!", "\n", "\n", "a", " ", " ", "b">>,
    <<"\n", ".", " ", "a", ",", " ", "b", ".", ".", " ", "a">> }

\* 400 times the word "the.", one after the other and one per sentence
The400 == Repeat(<<"t", "h", "e", ".">>, 400)
The400Spaced == Repeat(<<"t", "h", "e", ".", " ">>, 400)

Cats ==
  <<"C", "a", "t", "s", " ", "s", "l", "e", "e", "p", " ",
    "m", "o", "s", "t", " ", "o", "f", " ", "d", "a", "y">>

TextCases ==
  StringsUpTo(SegmentAlphabet, MaxLen + 1) \cup SegmentTexts
    \cup {The400, The400Spaced, Cats}

InitText ==
  /\ eval \in {EvalOf("text", "text", t, <<>>, <<>>, NoSignals, NoScore) :
                 t \in TextCases}
  /\ pc = [r \in 1..NumReqs |-> "idle"]
  /\ body = [r \in 1..NumReqs |-> [json |-> "none"]]
  /\ resp = [r \in 1..NumReqs |-> [status |-> 0]]
  /\ calls = [r \in 1..NumReqs |-> <<>>]
  /\ ui = NoUI

NextText ==
  \/ ApplyTokenizeWords
  \/ ApplySplitSentences
  \/ ApplyComputeSignals
  \/ ApplyScoreAI

SpecText == InitText /\ [][NextText]_vars

(***************************************************************************)
(* The POST handler, onRequestPost.                                        *)
(***************************************************************************)
Reqs == 1..NumReqs

\* texts sent to the handler
HandlerTexts ==
  { <<>>, <<" ">>, <<" ", "\n">>,
    <<"a">>, <<"a", "\n">>, <<".">>, <<"?", "!">>, <<"U+00E9">>, <<"-">>,
    <<" ", "A", " ", "a", ".", " ">>,
    BurstyText,
    <<"a", "'", "b", "\n", "1", ",", " ", "U+00C9", "a">> }

\* what ctx.request.json() can produce: a rejection (malformed), or a JSON
\* value; type is typeof body.text, with null kept apart
BodyOf(json, type, chars) == [json |-> json, type |-> type, chars |-> chars]

Bodies ==
  { BodyOf("malformed", "undefined", <<>>),
    BodyOf("null", "undefined", <<>>),
    BodyOf("number", "undefined", <<>>),
    BodyOf("object", "undefined", <<>>),
    BodyOf("object", "null", <<>>),
    BodyOf("object", "number", <<>>) }
  \cup {BodyOf("object", "string", t) : t \in HandlerTexts}

NoBody == [json |-> "none"]
NoResponse == [status |-> 0]

\* mutant: a response is refused while another one is not yet delivered
json_busy(data, status) ==
  [status |-> IF \E q \in 1..NumReqs : pc[q] = "done" THEN 503 ELSE status,
   data |-> data]

\* json(data, status)
json(data, status) == [status |-> status, data |-> data]
\* an exception that leaves the handler uncaught
Uncaught(name) == [status |-> 500, exception |-> name]

Init ==
  /\ eval = EvalOf("none", "off", <<>>, <<>>, <<>>, NoSignals, NoScore)
  /\ pc = [r \in Reqs |-> "idle"]
  /\ body = [r \in Reqs |-> NoBody]
  /\ resp = [r \in Reqs |-> NoResponse]
  /\ calls = [r \in Reqs |-> <<>>]
  /\ ui = NoUI

\* a request arrives and the handler starts: it awaits ctx.request.json()
Receive(r, b) ==
  /\ pc[r] = "idle"
  /\ pc' = [pc EXCEPT ![r] = "json"]
  /\ body' = [body EXCEPT ![r] = b]
  /\ UNCHANGED <<eval, resp, calls, ui>>

\* the handler from the point where ctx.request.json() settles to its return
onRequestPost(r) ==
  /\ pc[r] = "json"
  /\ pc' = [pc EXCEPT ![r] = "done"]
  /\ LET b == body[r]
         \* body.text ?? ''
         value == IF b.type \in {"undefined", "null"}
                    THEN [type |-> "string", chars |-> <<>>]
                    ELSE [type |-> b.type, chars |-> b.chars]
         text == trim(value.chars)
         signals == computeSignals(text)
         scored == scoreAI(signals)
     IN IF b.json = "malformed"
          THEN /\ resp' = [resp EXCEPT ![r] =
                            json([error |-> "Invalid JSON body"], 400)]
               /\ UNCHANGED calls
        ELSE IF b.json = "null"
          \* body.text on null
          THEN /\ resp' = [resp EXCEPT ![r] = Uncaught("TypeError")]
               /\ UNCHANGED calls
        ELSE IF value.type # "string"
          \* .trim is not a function
          THEN /\ resp' = [resp EXCEPT ![r] = Uncaught("TypeError")]
               /\ UNCHANGED calls
        ELSE IF text = <<>>
          THEN /\ resp' = [resp EXCEPT ![r] =
                            json([error |-> "Missing \"text\""], 400)]
               /\ UNCHANGED calls
        ELSE /\ resp' = [resp EXCEPT ![r] =
                          json([ai_probability |-> scored.ai_probability,
                                confidence |-> scored.confidence,
                                signals |-> signals,
                                notes |-> scored.notes], 200)]
             /\ calls' = [calls EXCEPT ![r] =
                           <<"computeSignals", "scoreAI">>]
  /\ UNCHANGED <<eval, body, ui>>

\* the response has been delivered; the slot serves the next request
Deliver(r) ==
  /\ pc[r] = "done"
  /\ pc' = [pc EXCEPT ![r] = "idle"]
  /\ body' = [body EXCEPT ![r] = NoBody]
  /\ resp' = [resp EXCEPT ![r] = NoResponse]
  /\ calls' = [calls EXCEPT ![r] = <<>>]
  /\ UNCHANGED <<eval, ui>>

Next ==
  \/ \E r \in Reqs, b \in Bodies : Receive(r, b)
  \/ \E r \in Reqs : onRequestPost(r)
  \/ \E r \in Reqs : Deliver(r)

Spec == Init /\ [][Next]_vars

(***************************************************************************)
(* The ensemble variant of the engine and of the handler: compression      *)
(* score, perturbation stability score and their combination with the      *)
(* heuristic score.  App.tsx reads its output (signals.zippy_score,         *)
(* signals.detectgpt_stability, scores.zippy, scores.detectgpt); the code   *)
(* itself is described in sections 4.4 to 4.6 and 6 of the specification.  *)
(***************************************************************************)
\* the ratios compressionRatio(text) can resolve to: compressed bytes over
\* original bytes, as the gzip stream of the runtime yields them
Ratios == {100, 480, 1100}

\* mutant: the band is read the other way round
zipPyScore_inverted(ratio) == clamp01(Div(ratio - 280, 680 - 280))

\* score = clamp(1 - (ratio - 0.28) / (0.68 - 0.28), 0, 1)
zipPyScore(ratio) == clamp01(Scale - Div(ratio - 280, 680 - 280))

\* abs(sin(seed * 9973)) mod 1, in millionths
seededUnit(seed) ==
  CASE seed = 1 -> 999900
    [] seed = 2 -> 28238
    [] seed = 3 -> 999102
    [] seed = 4 -> 56454
    [] seed = 5 -> 997508

\* tokens.join(' ')
joinWords(tokens) ==
  Flatten([k \in 1..Len(tokens) |->
             IF k = 1 THEN tokens[k] ELSE <<" ">> \o tokens[k]])

\* mutant: the floor is 10 tokens
perturb_floor10(text, seed) ==
  LET tokens == tokenizeWords(text)
      idx == (seededUnit(seed) * (Len(tokens) - 1)) \div 1000000 + 1
  IN IF Len(tokens) < 10 THEN text
     ELSE joinWords([tokens EXCEPT ![idx] = tokens[idx + 1],
                                   ![idx + 1] = tokens[idx]])

\* swap one token, picked by the seed among all but the last, with its
\* successor; a text of fewer than 12 tokens is returned as it is
perturb(text, seed) ==
  LET tokens == tokenizeWords(text)
      idx == (seededUnit(seed) * (Len(tokens) - 1)) \div 1000000 + 1
  IN IF Len(tokens) < 12 THEN text
     ELSE joinWords([tokens EXCEPT ![idx] = tokens[idx + 1],
                                   ![idx + 1] = tokens[idx]])

\* the 5 deltas |perturbed score - baseScore|
deltas(text, baseScore) ==
  [i \in 1..5 |->
     Abs(scoreAI(computeSignals(perturb(text, i))).ai_probability
           - baseScore)]

\* stability = 1 - clamp(mean(deltas) / 0.15, 0, 1)
detectGPTScore(text, baseScore) ==
  Scale - clamp01(Div(SumSeq(deltas(text, baseScore)) \div 5, 150))

\* mutant: the three scores weigh the same
combine_equal(heuristic, compression, stability) ==
  LET finalScore == (heuristic + compression + stability) \div 3
  IN [finalScore |-> finalScore, confidence |-> confidenceOf(finalScore)]

\* finalScore = 0.4 * heuristic + 0.3 * compression + 0.3 * stability
combine(heuristic, compression, stability) ==
  LET finalScore ==
        (400 * heuristic + 300 * compression + 300 * stability) \div Scale
  IN [finalScore |-> finalScore, confidence |-> confidenceOf(finalScore)]

\* mutant: the gate is at 40 tokens, the length the heuristic dampens from
compressionGate_40(length) == length >= 40

\* the compression score is computed only when the token length is >= 60
compressionGate(length) == length >= 60

\* n one-letter words, a and b in turn, in one sentence that ends with a
\* full stop
Sentence(n) ==
  [i \in 1..(2 * n) |->
     IF i = 2 * n THEN "." ELSE IF i % 2 = 0 THEN " "
     ELSE IF i % 4 = 1 THEN "a" ELSE "b"]

EnsembleTexts ==
  {<<>>, <<" ", "A", " ", "a", ".", " ">>}
  \cup {Sentence(n) : n \in {11, 12, 59, 60}}

EnsembleBodies ==
  {BodyOf("malformed", "undefined", <<>>)}
  \cup {BodyOf("object", "string", t) : t \in EnsembleTexts}

\* the response of the ensemble handler in normal mode
EnsembleResponse(text, zippy) ==
  LET signals == computeSignals(text)
      heuristic == scoreAI(signals).ai_probability
      stability == detectGPTScore(text, heuristic)
      final == combine(heuristic, zippy, stability)
  IN json([ai_probability |-> final.finalScore,
           confidence |-> final.confidence,
           signals |->
             [length |-> signals.length,
              burstiness |-> signals.burstiness,
              repetition |-> signals.repetition,
              punctuation_rate |-> signals.punctuation_rate,
              avg_word_len |-> signals.avg_word_len,
              unique_word_ratio |-> signals.unique_word_ratio,
              zippy_score |-> zippy,
              detectgpt_stability |-> stability]], 200)

\* body.mode and body.label of a request; a body sent without them is a
\* normal-mode request, a calibration sample without a known label is
\* "unlabeled"
modeOf(b) == IF "mode" \in DOMAIN b THEN b.mode ELSE "normal"
labelOf(b) ==
  IF "label" \in DOMAIN b /\ b.label \in {"human", "ai"}
    THEN b.label ELSE "unlabeled"

\* mutant: a calibration sample is scored without the perturbation pass
CalibrationResponse_quick(text, label, zippy) ==
  LET signals == computeSignals(text)
      heuristic == scoreAI(signals).ai_probability
  IN json([label |-> label,
           signals |-> signals,
           scores |-> [heuristic |-> heuristic,
                       zippy |-> zippy,
                       detectgpt |-> Scale,
                       ensemble |->
                         combine(heuristic, zippy, Scale).finalScore]], 200)

\* the response of the ensemble handler in calibration mode
CalibrationResponse(text, label, zippy) ==
  LET signals == computeSignals(text)
      heuristic == scoreAI(signals).ai_probability
      stability == detectGPTScore(text, heuristic)
  IN json([label |-> label,
           signals |-> signals,
           scores |-> [heuristic |-> heuristic,
                       zippy |-> zippy,
                       detectgpt |-> stability,
                       ensemble |->
                         combine(heuristic, zippy, stability).finalScore]],
          200)

\* the mode selects the fields that are returned
ResponseFor(b, text, zippy) ==
  IF modeOf(b) = "calibration"
    THEN CalibrationResponse(text, labelOf(b), zippy)
    ELSE EnsembleResponse(text, zippy)

\* the ensemble handler from the point where ctx.request.json() settles to
\* its return or, for a text of 60 tokens or more, to the await of
\* compressionRatio(text)
onRequestPostEnsemble(r) ==
  /\ pc[r] = "json"
  /\ LET b == body[r]
         text == trim(b.chars)
     IN IF b.json = "malformed"
          THEN /\ resp' = [resp EXCEPT ![r] =
                            json([error |-> "Invalid JSON body"], 400)]
               /\ pc' = [pc EXCEPT ![r] = "done"]
               /\ UNCHANGED calls
        ELSE IF text = <<>>
          THEN /\ resp' = [resp EXCEPT ![r] =
                            json([error |-> "Missing \"text\""], 400)]
               /\ pc' = [pc EXCEPT ![r] = "done"]
               /\ UNCHANGED calls
        ELSE IF compressionGate(Len(tokenizeWords(text)))
          THEN /\ pc' = [pc EXCEPT ![r] = "gzip"]
               /\ calls' = [calls EXCEPT ![r] =
                             <<"computeSignals", "scoreAI",
                               "compressionRatio">>]
               /\ UNCHANGED resp
        ELSE /\ resp' = [resp EXCEPT ![r] = ResponseFor(b, text, 0)]
             /\ pc' = [pc EXCEPT ![r] = "done"]
             /\ calls' = [calls EXCEPT ![r] =
                           <<"computeSignals", "scoreAI", "detectGPTScore",
                             "combine">>]
  /\ UNCHANGED <<eval, body, ui>>

\* compressionRatio(text) resolves to ratio and the handler runs to its
\* return
Compressed(r, ratio) ==
  /\ pc[r] = "gzip"
  /\ pc' = [pc EXCEPT ![r] = "done"]
  /\ resp' = [resp EXCEPT ![r] =
                ResponseFor(body[r], trim(body[r].chars), zipPyScore(ratio))]
  /\ calls' = [calls EXCEPT ![r] =
                @ \o <<"zipPyScore", "detectGPTScore", "combine">>]
  /\ UNCHANGED <<eval, body, ui>>

NextEnsemble ==
  \/ \E r \in Reqs, b \in EnsembleBodies : Receive(r, b)
  \/ \E r \in Reqs : onRequestPostEnsemble(r)
  \/ \E r \in Reqs, ratio \in Ratios : Compressed(r, ratio)
  \/ \E r \in Reqs : Deliver(r)

SpecEnsemble == Init /\ [][NextEnsemble]_vars

\* requests as analyze (App.tsx) sends them: { text } or, when calibrating,
\* { text, mode: 'calibration', label }
NormalBody(chars) == BodyOf("object", "string", chars)
CalibrationBody(chars, label) ==
  [json |-> "object", type |-> "string", chars |-> chars,
   mode |-> "calibration", label |-> label]

CalibrationBodies ==
  { NormalBody(Sentence(12)),
    CalibrationBody(Sentence(12), "human"),
    CalibrationBody(Sentence(12), "ai"),
    CalibrationBody(Sentence(12), "none"),
    NormalBody(Sentence(60)),
    CalibrationBody(Sentence(60), "ai") }

NextCalibration ==
  \/ \E r \in Reqs, b \in CalibrationBodies : Receive(r, b)
  \/ \E r \in Reqs : onRequestPostEnsemble(r)
  \/ \E r \in Reqs, ratio \in Ratios : Compressed(r, ratio)
  \/ \E r \in Reqs : Deliver(r)

SpecCalibration == Init /\ [][NextCalibration]_vars

(***************************************************************************)
(* The browser pages.  The repository holds three App components: the one  *)
(* of App.tsx whose scan is runScan (lines 1-500), the one of App.tsx      *)
(* whose scan is analyze (lines 503 on), and the one embedded in detect.ts *)
(* whose scan is runScan over apiDetect (lines 139 on).  A page is one of  *)
(* them; ui holds its React state, the scans it has in flight and the      *)
(* ids it has drawn.                                                       *)
(***************************************************************************)
\* scans a page starts beyond the cap of its history
MaxExtra == 2

\* App.tsx:764 and detect.ts:407
AnalyzeHistoryCap == 25
EmbeddedHistoryCap == 10

Null == "null"
\* the result state before a scan has stored one (useState(null))
NoResult == [none |-> TRUE]

\* what the textarea can hold: nothing, a blank, 9 words and 10 words
\* followed by a space
UITexts ==
  {<<>>, <<" ">>, Repeat(<<"a", " ">>, 9), Repeat(<<"a", " ">>, 10)}

\* s.split(/\s+/).filter(Boolean).length
countWords(s) ==
  Cardinality({i \in 1..Len(s) :
                 s[i] \notin Whitespace
                   /\ (i = 1 \/ s[i - 1] \in Whitespace)})

\* the scan modes of the analyze page, and those it does not offer yet
\* (App.tsx:713)
ScanModes == {"advanced_ai", "plagiarism"}
disabledModes == {"plagiarism", "hallucinations", "writing_feedback", "custom"}

\* a scan between its fetch and the end of its function: the text it sent,
\* the isCalibrating it was started with, and for apiDetect the candidates
\* it has sent and the last error it has seen
ScanOf(t, calibrating) ==
  [text |-> t, calibrating |-> calibrating, sent |-> <<>>, lastErr |-> ""]

NoApi == [sent |-> <<>>, ret |-> NoResult]

PageOf(variant) ==
  [variant |-> variant, text |-> <<>>, autoTrim |-> TRUE,
   mode |-> "advanced_ai", isCalibrating |-> FALSE,
   loading |-> FALSE, result |-> NoResult, error |-> Null,
   history |-> <<>>, clock |-> 0, scans |-> <<>>, requests |-> 0,
   api |-> NoApi]

\* the cap of the history of the page; the runScan page of App.tsx keeps
\* no history
HistoryCap ==
  CASE ui.variant = "analyze" -> AnalyzeHistoryCap
    [] ui.variant = "embedded" -> EmbeddedHistoryCap
    [] OTHER -> 0

\* the sequence without its i-th element
Without(seq, i) == SubSeq(seq, 1, i - 1) \o SubSeq(seq, i + 1, Len(seq))

InitUI ==
  /\ ui \in {PageOf(v) : v \in {"runScan", "analyze", "embedded"}}
  /\ eval = EvalOf("none", "off", <<>>, <<>>, <<>>, NoSignals, NoScore)
  /\ pc = [r \in 1..NumReqs |-> "idle"]
  /\ body = [r \in 1..NumReqs |-> [json |-> "none"]]
  /\ resp = [r \in 1..NumReqs |-> [status |-> 0]]
  /\ calls = [r \in 1..NumReqs |-> <<>>]

\* onChange of the textarea
setText(t) ==
  /\ ui.variant # "none"
  /\ ui' = [ui EXCEPT !.text = t]
  /\ UNCHANGED <<eval, pc, body, resp, calls>>

(***************************************************************************)
(* App.tsx, first component: runScan.                                      *)
(***************************************************************************)
setAutoTrim(b) ==
  /\ ui.variant = "runScan"
  /\ ui' = [ui EXCEPT !.autoTrim = b]
  /\ UNCHANGED <<eval, pc, body, resp, calls>>

\* lines 128-132
normalizedText == IF ui.autoTrim THEN trim(ui.text) ELSE ui.text

\* mutant: the Scan button is not disabled while loading
scanDisabled_never == FALSE

\* disabled={loading} (App.tsx:304, 910), disabled={loading || !text.trim()}
\* (detect.ts:448, 580, 722)
scanDisabled ==
  IF ui.variant = "embedded"
    THEN ui.loading \/ trim(ui.text) = <<>>
    ELSE ui.loading

\* mutant: a text of any length is sent
tooShort_never(payloadText) == FALSE

\* line 139
tooShort(payloadText) ==
  payloadText = <<>> \/ countWords(payloadText) < 10

\* a click on Scan: runScan up to its return or its await of fetch
runScan ==
  /\ ui.variant = "runScan"
  /\ ~scanDisabled
  /\ LET payloadText == normalizedText
     IN IF tooShort(payloadText)
          THEN ui' = [ui EXCEPT !.error = "Paste more text",
                                !.result = NoResult,
                                !.requests = 0]
          ELSE ui' = [ui EXCEPT !.error = Null,
                                !.result = NoResult,
                                !.loading = TRUE,
                                !.requests = 1,
                                !.scans = Append(@, ScanOf(payloadText, FALSE))]
  /\ UNCHANGED <<eval, pc, body, resp, calls>>

\* what the fetch of runScan and the res.json() after it can come to
RunScanOutcomes ==
  {"non2xx error", "non2xx plain", "ok false", "ok true", "score",
   "unexpected", "throws"}

ApiResult == [ok |-> TRUE, score |-> 500, model |-> "api"]

\* mutant: the function ends without its finally block
finallyBlock_skipped(page, i) == [page EXCEPT !.scans = Without(@, i)]

\* finally { setLoading(false) } (App.tsx:210-212, 822-824), after which
\* the call is over
finallyBlock(page, i) ==
  [page EXCEPT !.loading = FALSE, !.scans = Without(@, i)]

\* runScan from its await to its end, finally block included
runScanResumes(i, outcome) ==
  /\ ui.variant = "runScan"
  /\ i \in 1..Len(ui.scans)
  /\ LET settled ==
           CASE outcome = "non2xx error" ->
                  [ui EXCEPT !.error = "Missing \"text\"", !.result = NoResult]
             [] outcome = "non2xx plain" ->
                  [ui EXCEPT !.error = "Scan failed (HTTP 500).",
                             !.result = NoResult]
             [] outcome = "ok false" ->
                  [ui EXCEPT !.error = "Scan failed.", !.result = NoResult]
             [] outcome = "ok true" -> [ui EXCEPT !.result = ApiResult]
             [] outcome = "score" -> [ui EXCEPT !.result = ApiResult]
             [] outcome = "unexpected" ->
                  [ui EXCEPT !.error = "Scan failed (unexpected response).",
                             !.result = NoResult]
             [] outcome = "throws" -> [ui EXCEPT !.error = "Network error."]
     IN ui' = finallyBlock(settled, i)
  /\ UNCHANGED <<eval, pc, body, resp, calls>>

(***************************************************************************)
(* App.tsx, second component: analyze, pushHistory.                        *)
(***************************************************************************)
setMode(m) ==
  /\ ui.variant = "analyze"
  /\ ui' = [ui EXCEPT !.mode = m]
  /\ UNCHANGED <<eval, pc, body, resp, calls>>

setIsCalibrating(b) ==
  /\ ui.variant = "analyze"
  /\ ui' = [ui EXCEPT !.isCalibrating = b]
  /\ UNCHANGED <<eval, pc, body, resp, calls>>

\* lines 849-852; the button is disabled on an empty history
clearHistory ==
  /\ ui.variant = "analyze"
  /\ ui.history # <<>>
  /\ ui' = [ui EXCEPT !.history = <<>>]
  /\ UNCHANGED <<eval, pc, body, resp, calls>>

\* nowId() and Date.now(): an id no earlier call has returned, and the
\* time of the call
HistoryItem(n) == [id |-> n, ts |-> n]

\* mutant: the history is not cut
pushHistory_uncut(prev, item) ==
  <<item>> \o SelectSeq(prev, LAMBDA p : p.id # item.id)

\* lines 761-766
pushHistory(prev, item) ==
  LET next == <<item>> \o SelectSeq(prev, LAMBDA p : p.id # item.id)
  IN SubSeq(next, 1, Min(Len(next), AnalyzeHistoryCap))

\* a click on Analyze: analyze up to its return or its await of fetch
analyze ==
  /\ ui.variant = "analyze"
  /\ ~scanDisabled
  /\ ui.clock < AnalyzeHistoryCap + MaxExtra
  /\ LET t == trim(ui.text)
     IN IF ui.mode \in disabledModes
          THEN ui' = [ui EXCEPT !.error = "That scan type is coming soon.",
                                !.result = NoResult,
                                !.requests = 0]
        ELSE IF t = <<>>
          THEN ui' = [ui EXCEPT !.error = "Paste some text first.",
                                !.result = NoResult,
                                !.requests = 0]
        ELSE ui' = [ui EXCEPT !.error = Null,
                              !.result = NoResult,
                              !.loading = TRUE,
                              !.requests = 1,
                              !.scans = Append(@, ScanOf(t, ui.isCalibrating))]
  /\ UNCHANGED <<eval, pc, body, resp, calls>>

\* what the fetch of analyze and the r.json() after it can come to
AnalyzeOutcomes == {"ok", "non2xx error", "non2xx", "throws"}

ScoredData == [ai_probability |-> 500, confidence |-> "low"]

\* mutant: a calibration sample is kept in the history too
keepsHistory_always(scan) == TRUE

\* line 802: if (!isCalibrating)
keepsHistory(scan) == ~scan.calibrating

\* analyze from its await to its end, finally block included
analyzeResumes(i, outcome) ==
  /\ ui.variant = "analyze"
  /\ i \in 1..Len(ui.scans)
  /\ LET scan == ui.scans[i]
         settled ==
           CASE outcome = "non2xx error" ->
                  [ui EXCEPT !.error = "Missing \"text\"",
                             !.result = [error |-> "Missing \"text\""]]
             [] outcome = "non2xx" ->
                  [ui EXCEPT !.error = "Request failed.",
                             !.result = [notes |-> <<>>]]
             [] outcome = "ok" ->
                  IF keepsHistory(scan)
                    THEN [ui EXCEPT !.result = ScoredData,
                                    !.clock = @ + 1,
                                    !.history =
                                      pushHistory(@, HistoryItem(ui.clock + 1))]
                    ELSE [ui EXCEPT !.result = ScoredData]
             [] outcome = "throws" -> [ui EXCEPT !.error = "Network error."]
     IN ui' = finallyBlock(settled, i)
  /\ UNCHANGED <<eval, pc, body, resp, calls>>

(***************************************************************************)
(* detect.ts, embedded component: localHeuristic, apiDetect, runScan.      *)
(***************************************************************************)
\* s.split(/\s+/).filter(Boolean): the maximal runs without whitespace
splitWhitespace(s) ==
  LET starts == SelectSeq(Positions(s), LAMBDA i :
                  s[i] \notin Whitespace
                    /\ (i = 1 \/ s[i - 1] \in Whitespace))
      ends == SelectSeq(Positions(s), LAMBDA i :
                s[i] \notin Whitespace
                  /\ (i = Len(s) \/ s[i + 1] \in Whitespace))
  IN [k \in 1..Len(starts) |-> SubSeq(s, starts[k], ends[k])]

\* lines 201-210: splitSentences of the embedded component
previewSentences(input) ==
  LET text == trim(collapseWhitespace(input))
      pieces == split(text)
      kept == SelectSeq([i \in 1..Len(pieces) |-> trim(pieces[i])],
                        LAMBDA p : p # <<>>)
  IN IF text = <<>> THEN <<>> ELSE SubSeq(kept, 1, Min(Len(kept), 12))

\* w.toLowerCase().replace(/[^a-z0-9']/g, '')
bareWord(w) ==
  SelectSeq(toLowerCase(w), LAMBDA c :
    c \in {lowerChar(u) : u \in AsciiUpper} \cup AsciiLower \cup AsciiDigit
             \cup {"'"})

\* lines 225-227: uniq.size / words.length over the bare words
diversityOf(lower) ==
  IF Len(lower) # 0
    THEN Div(Cardinality({lower[k] : k \in 1..Len(lower)} \ {<<>>}),
             Len(lower))
    ELSE 0

\* lines 230-239: the share of the words that occur 4 times or more
repetitionOf(lower) ==
  LET freq(w) == Cardinality({k \in 1..Len(lower) : lower[k] = w})
      repeats == SumSeq([k \in 1..Len(lower) |->
                           IF lower[k] # <<>> /\ freq(lower[k]) >= 4
                                /\ \A j \in 1..(k - 1) : lower[j] # lower[k]
                             THEN freq(lower[k]) ELSE 0])
  IN IF Len(lower) # 0 THEN Div(repeats, Len(lower)) ELSE 0

\* lines 242-244: the variance of the sentence lengths
varianceOf(lens) ==
  IF Len(lens) # 0
    THEN Div(Len(lens) * SumSeq([i \in 1..Len(lens) |-> lens[i] * lens[i]])
               - SumSeq(lens) * SumSeq(lens),
             Len(lens) * Len(lens))
    ELSE 0

\* lines 247-267
heuristicResult(sentences, words, diversity, repetitionShare, variance) ==
  [ok |-> TRUE,
   score |-> Max(0, Min(Scale,
               (550 * (Scale - diversity) + 300 * repetitionShare
                  + 150 * (IF variance < 18 * Scale THEN 800 ELSE 200))
               \div Scale)),
   model |-> "local-heuristic",
   details |-> [entropy |-> diversity, burstiness |-> variance,
                tokenCount |-> Len(words),
                sentenceCount |-> Len(sentences)],
   notes |-> <<"Local fallback scoring (no API).",
               "Use longer samples (80+ words) for better signal.">>]

\* lines 219-225 and 242: the sentences, the words, the bare words and the
\* sentence lengths of the text
heuristicOf(sentences, words, lower) ==
  heuristicResult(sentences, words, diversityOf(lower), repetitionOf(lower),
    varianceOf(SelectSeq([i \in 1..Len(sentences) |->
                           Len(splitWhitespace(sentences[i]))],
                        LAMBDA n : n > 0)))

\* lines 218-268
localHeuristic(text) ==
  heuristicOf(previewSentences(trim(text)), splitWhitespace(trim(text)),
    [k \in 1..Len(splitWhitespace(trim(text))) |->
       bareWord(splitWhitespace(trim(text))[k])])

\* lines 272-277: { text }, { input: text }, { content: text },
\* { text, mode: 'ai' }
candidates == <<"text", "input", "content", "text mode">>

\* what one fetch of apiDetect and the res.json() after it can come to:
\* a 2xx response with a numeric score, a non-2xx response, a 2xx response
\* without a numeric score, an exception
ApiOutcomes == {"score", "non2xx", "no score", "throws"}

\* lines 288, 304, 326
lastErrOf(outcome) ==
  CASE outcome = "non2xx" -> "HTTP 500"
    [] outcome = "no score" -> "No score in response"
    [] outcome = "throws" -> "Network error"

\* a click on Scan or Re-scan: runScan up to the first fetch of apiDetect
runScanEmbedded ==
  /\ ui.variant = "embedded"
  /\ ~scanDisabled
  /\ ui.clock < EmbeddedHistoryCap + MaxExtra
  /\ LET trimmed == trim(ui.text)
     IN IF trimmed = <<>>
          THEN ui' = [ui EXCEPT !.requests = 0]
          ELSE ui' = [ui EXCEPT
                        !.loading = TRUE,
                        !.result = NoResult,
                        !.requests = 1,
                        !.scans =
                          Append(@, [ScanOf(trimmed, FALSE) EXCEPT
                                       !.sent = <<candidates[1]>>])]
  /\ UNCHANGED <<eval, pc, body, resp, calls>>

\* mutant: the message of the failed call is read before r is replaced
fallback_keepsError(text, r) ==
  LET fallen == localHeuristic(text)
  IN [fallen EXCEPT !.notes = @ \o <<<<"API error: ", r.error>>>>]

\* lines 393-396: r = localHeuristic(trimmed); r.notes = [...(r.notes ||
\* []), `API error: ${r.error || 'unknown'}`], r being the local result by
\* then
fallback(text, r) ==
  LET fallen == localHeuristic(text)
      message ==
        IF "error" \in DOMAIN fallen THEN fallen.error ELSE "unknown"
  IN [fallen EXCEPT !.notes = @ \o <<<<"API error: ", message>>>>]

\* lines 391-410: runScan from the return of apiDetect to its end
finished(page, i, r) ==
  LET scan == page.scans[i]
      shown == IF r.ok THEN r ELSE fallback(scan.text, r)
      history == <<HistoryItem(page.clock + 1)>> \o page.history
  IN [page EXCEPT
        !.result = shown,
        !.clock = @ + 1,
        !.history = SubSeq(history, 1, Min(Len(history), EmbeddedHistoryCap)),
        !.loading = FALSE,
        !.api = [sent |-> scan.sent, ret |-> r],
        !.scans = Without(@, i)]

\* mutant: a failed candidate is tried once more before the next one
nextCandidate_retry(sent) == candidates[Len(sent)]

\* the loop of line 280 goes on with the candidate after the ones sent
nextCandidate(sent) == candidates[Len(sent) + 1]

\* apiDetect from an await of its loop to its next fetch or, at its return,
\* runScan to its end
apiDetectResumes(i, outcome) ==
  /\ ui.variant = "embedded"
  /\ i \in 1..Len(ui.scans)
  /\ LET scan == ui.scans[i]
     IN IF outcome = "score"
          THEN ui' = finished(ui, i,
                       [ok |-> TRUE, score |-> 500, model |-> "api",
                        notes |-> <<>>])
        ELSE IF Len(scan.sent) < Len(candidates)
          THEN ui' = [ui EXCEPT
                        !.requests = @ + 1,
                        !.scans[i].lastErr = lastErrOf(outcome),
                        !.scans[i].sent =
                          Append(@, nextCandidate(scan.sent))]
        ELSE ui' = finished(ui, i,
                     [ok |-> FALSE, score |-> 0,
                      error |-> lastErrOf(outcome)])
  /\ UNCHANGED <<eval, pc, body, resp, calls>>

NextUI ==
  \/ \E t \in UITexts : setText(t)
  \/ \E b \in BOOLEAN : setAutoTrim(b)
  \/ runScan
  \/ \E i \in 1..2, o \in RunScanOutcomes : runScanResumes(i, o)
  \/ \E m \in ScanModes : setMode(m)
  \/ \E b \in BOOLEAN : setIsCalibrating(b)
  \/ clearHistory
  \/ analyze
  \/ \E i \in 1..2, o \in AnalyzeOutcomes : analyzeResumes(i, o)
  \/ runScanEmbedded
  \/ \E i \in 1..2, o \in ApiOutcomes : apiDetectResumes(i, o)

SpecUI == InitUI /\ [][NextUI]_vars

\* a fetch in flight settles, and the function that awaits it resumes
Settles ==
  \E i \in 1..2 :
    \/ \E o \in RunScanOutcomes : runScanResumes(i, o)
    \/ \E o \in AnalyzeOutcomes : analyzeResumes(i, o)
    \/ \E o \in ApiOutcomes : apiDetectResumes(i, o)

FairSpecUI == SpecUI /\ WF_vars(Settles)

(***************************************************************************)
(* Properties of the engine's functions (SpecEngine).                      *)
(***************************************************************************)
Unit == 0..Scale
Tokenized == eval.from = "text" /\ eval.stage \notin {"text", "off"}
HasSignals == eval.stage \in {"signals", "scored"}
Scored == eval.stage = "scored"

\* C1: the signals burstiness, repetition, punctuation_rate and
\* unique_word_ratio computed for a text each lie in [0,1], and so does the
\* ai_probability scoreAI returns for the signal vector.
C1_RangeInvariant ==
  /\ HasSignals =>
       /\ eval.signals.burstiness \in Unit
       /\ eval.signals.repetition \in Unit
       /\ eval.signals.punctuation_rate \in Unit
       /\ eval.signals.unique_word_ratio \in Unit
  /\ Scored => eval.scored.ai_probability \in Unit

\* a text whose raw burstiness exceeds 1 has been scored
C1_Witness ==
  /\ Scored
  /\ eval.text = BurstyText
  /\ eval.signals.burstiness = Scale

Rank(label) == CASE label = "low" -> 0 [] label = "medium" -> 1
                 [] label = "high" -> 2

C2_Thresholds ==
  Scored =>
    LET p == eval.scored.ai_probability
        c == eval.scored.confidence
    IN /\ c \in {"low", "medium", "high"}
       /\ (c = "high") <=> (p >= 800)
       /\ (c = "medium") <=> (p >= 550 /\ p < 800)
       /\ (c = "low") <=> (p < 550)

C2_Monotone ==
  (Scored /\ eval'.stage = "scored"
     /\ eval.scored.ai_probability <= eval'.scored.ai_probability)
  => Rank(eval.scored.confidence) <= Rank(eval'.scored.confidence)

\* C2: the confidence label is "high" exactly when the score is >= 0.80,
\* "medium" exactly when it is >= 0.55 and < 0.80, and "low" otherwise; it
\* is one of the three labels, and of two scores the larger never gets the
\* smaller label.
C2_ConfidenceLabel == [](C2_Thresholds) /\ [][C2_Monotone]_vars

\* a score of exactly 0.80 has been labelled
C2_Witness ==
  /\ Scored
  /\ eval.scored.ai_probability = 800
  /\ eval.scored.confidence = "high"

AllZero ==
  [length |-> 0, burstiness |-> 0, repetition |-> 0, punctuation_rate |-> 0,
   avg_word_len |-> 0, unique_word_ratio |-> 0]

\* a text without a letter or digit: punctuation, quotes and whitespace
NoLetterOrDigit(t) ==
  \A i \in 1..Len(t) : t[i] \notin UnicodeLetter \cup UnicodeDigit

\* C5 as stated: tokenizeWords("") is empty and computeSignals("") is 0 in
\* every field, and the same holds for any text without a token, such as
\* pure punctuation.
C5_AllZeroWithoutToken ==
  /\ (Tokenized /\ NoLetterOrDigit(eval.text)) => eval.words = <<>>
  /\ (HasSignals /\ eval.from = "text" /\ eval.words = <<>>)
       => eval.signals = AllZero

\* C5, amended: tokenizeWords("") is empty and computeSignals("") is 0 in
\* every field; for any text without a token every field but
\* punctuation_rate is 0, and punctuation_rate is the share of
\* punctuation characters, a number in [0,1].
C5_ZeroWithoutToken ==
  /\ (Tokenized /\ NoLetterOrDigit(eval.text)) => eval.words = <<>>
  /\ (HasSignals /\ eval.from = "text" /\ eval.text = <<>>)
       => eval.signals = AllZero
  /\ (HasSignals /\ eval.from = "text" /\ eval.words = <<>>)
       => /\ [eval.signals EXCEPT !.punctuation_rate = 0] = AllZero
          /\ eval.signals.punctuation_rate =
               IF eval.text = <<>> THEN 0
               ELSE (Cardinality({i \in 1..Len(eval.text) :
                                    eval.text[i] \in Punct}) * Scale)
                      \div Len(eval.text)

\* the signals of a text of punctuation only have been computed
C5_Witness ==
  /\ HasSignals
  /\ eval.text = <<".", ".">>
  /\ eval.signals.punctuation_rate = Scale

\* the last index of the whitespace-delimited word that starts at index i
RECURSIVE wordEnd(_, _)
wordEnd(t, i) ==
  IF i < Len(t) /\ t[i + 1] \notin Whitespace THEN wordEnd(t, i + 1) ELSE i

\* the whitespace-delimited words of a text, in text order
WhitespaceWords(t) ==
  LET starts == SelectSeq(Positions(t), LAMBDA i :
                  t[i] \notin Whitespace
                  /\ (i = 1 \/ t[i - 1] \in Whitespace))
  IN [k \in 1..Len(starts) |-> SubSeq(t, starts[k], wordEnd(t, starts[k]))]

\* a word of letters, digits, apostrophes and hyphens that begins and ends
\* with a letter or digit
IsWord(w) ==
  /\ \A i \in 1..Len(w) : w[i] \in TokenClass
  /\ w[1] \in UnicodeLetter \cup UnicodeDigit
  /\ w[Len(w)] \in UnicodeLetter \cup UnicodeDigit

\* C10: every whitespace-delimited word made only of letters, digits,
\* apostrophes and hyphens is returned by tokenizeWords as exactly one
\* lower-cased token, in text order, whether its letters are ASCII or not.
\* (Stated for the words that begin and end with a letter or digit.)
C10_UnicodeWords ==
  LET ws == WhitespaceWords(eval.text)
  IN (Tokenized /\ \A k \in 1..Len(ws) : IsWord(ws[k]))
     => eval.words = [k \in 1..Len(ws) |-> toLowerCase(ws[k])]

(***************************************************************************)
(* Properties of the handler (Spec).                                       *)
(***************************************************************************)
Done(r) == pc[r] = "done"
Ok(r) == Done(r) /\ resp[r].status = 200
Blank(t) == \A i \in 1..Len(t) : t[i] \in Whitespace
\* the body carries a text that is not blank
HasText(b) == b.json = "object" /\ b.type = "string" /\ ~Blank(b.chars)
\* the body is a JSON value other than null whose text is missing, null,
\* empty or blank
LacksText(b) ==
  /\ b.json \in {"number", "object"}
  /\ \/ b.type \in {"undefined", "null"}
     \/ b.type = "string" /\ Blank(b.chars)
\* the text the engine is given: the body's text without the whitespace
\* at its two ends
Stripped(t) ==
  LET inner == {i \in 1..Len(t) : t[i] \notin Whitespace}
  IN IF inner = {} THEN <<>>
     ELSE SubSeq(t, CHOOSE i \in inner : \A j \in inner : i <= j,
                    CHOOSE i \in inner : \A j \in inner : j <= i)

\* C3: two runs of the engine on the same text give the same signal
\* vector, the same ai_probability and the same confidence, whatever other
\* requests ran before or between them.
C3_Deterministic ==
  \A r1, r2 \in Reqs :
    (Ok(r1) /\ Ok(r2)
       /\ Stripped(body[r1].chars) = Stripped(body[r2].chars))
    => /\ resp[r1].data.signals = resp[r2].data.signals
       /\ resp[r1].data.ai_probability = resp[r2].data.ai_probability
       /\ resp[r1].data.confidence = resp[r2].data.confidence

\* two requests with the same text have both been scored
C3_Witness ==
  \E r1, r2 \in Reqs :
    /\ r1 # r2 /\ Ok(r1) /\ Ok(r2)
    /\ body[r1].chars # body[r2].chars
    /\ Stripped(body[r1].chars) = Stripped(body[r2].chars)

C6_PipelineCompletes ==
  \A r \in Reqs :
    (pc[r] \notin {"idle", "json"} /\ HasText(body[r]))
    => /\ Done(r)
       /\ resp[r].status = 200
       /\ calls[r] = <<"computeSignals", "scoreAI">>
       /\ resp[r].data.ai_probability \in Unit
       /\ resp[r].data.confidence \in {"low", "medium", "high"}
       /\ \A f \in DOMAIN resp[r].data.signals :
            resp[r].data.signals[f] >= 0

\* a text without any token has been scored
C6_Witness ==
  \E r \in Reqs :
    /\ Ok(r)
    /\ body[r].chars = <<"?", "!">>
    /\ resp[r].data.signals.length = 0

(***************************************************************************)
(* Properties of the ensemble handler (SpecEnsemble).                      *)
(***************************************************************************)
\* the tokens of the text request r was scored on
TokensOf(r) == tokenizeWords(Stripped(body[r].chars))
\* the heuristic score of the text request r was scored on
HeuristicOf(r) ==
  scoreAI(computeSignals(Stripped(body[r].chars))).ai_probability

SameBut(field) ==
  /\ eval.stage = "scored" /\ eval'.stage = "scored"
  /\ \A f \in DOMAIN eval.signals \ {field} :
       eval'.signals[f] = eval.signals[f]

\* C11: when only the repetition rises, within 0 to 0.22, the heuristic
\* score rises strictly (a score of 1 cannot rise, and is not reached
\* before the repetition is 0.22).
C11_Step ==
  /\ SameBut("repetition")
  /\ eval.signals.repetition \in 0..220
  /\ eval'.signals.repetition \in 0..220
  /\ eval.signals.repetition < eval'.signals.repetition
  => /\ eval.scored.ai_probability < Scale
     /\ eval'.scored.ai_probability > eval.scored.ai_probability

C11_RepetitionMonotone == [][C11_Step]_vars

\* a vector scored at repetition 0.22 below the clamp value, above what it
\* scores at repetition 0
C11_Witness ==
  /\ eval.stage = "scored"
  /\ eval.from = "vector"
  /\ eval.signals.repetition = 220
  /\ eval.scored.ai_probability < Scale
  /\ eval.scored.ai_probability >
       scoreAI([eval.signals EXCEPT !.repetition = 0]).ai_probability

(***************************************************************************)
(* Properties of the engine's functions on texts (SpecText).               *)
(***************************************************************************)
Segmented == eval.from = "text" /\ eval.stage \in {"segmented", "signals", "scored"}

\* the strings joined with one space between them
JoinWithSpaces(strs) ==
  Flatten([k \in 1..Len(strs) |->
             IF k = 1 THEN strs[k] ELSE <<" ">> \o strs[k]])

\* t without the whitespace at its ends and with one space for every
\* whitespace run: of a run only the last character is kept
Normalised(t) ==
  LET u == Stripped(t)
      kept == SelectSeq(Positions(u), LAMBDA i :
                u[i] \notin Whitespace \/ u[i + 1] \notin Whitespace)
  IN [k \in 1..Len(kept) |->
        IF u[kept[k]] \in Whitespace THEN " " ELSE u[kept[k]]]

\* C12: the sentences splitSentences returns, joined with single spaces,
\* are the text with every whitespace run collapsed to one space and the
\* whitespace at its ends removed.
C12_RoundTrip ==
  Segmented => JoinWithSpaces(eval.sentences) = Normalised(eval.text)

\* a text of two sentences or more that starts with whitespace and has a
\* whitespace run with a line break in it
C12_Witness ==
  /\ Segmented
  /\ Len(eval.sentences) >= 2
  /\ eval.text[1] \in Whitespace
  /\ \E i \in 1..(Len(eval.text) - 1) :
       eval.text[i] \in Whitespace /\ eval.text[i + 1] = "\n"

(***************************************************************************)
(* Properties of the handler under interleaving and on any body (Spec).    *)
(***************************************************************************)
\* what onRequestPost returns for body b when it is the only request
AloneResponse(b) ==
  LET text == IF b.type = "string" THEN Stripped(b.chars) ELSE <<>>
      signals == computeSignals(text)
      scored == scoreAI(signals)
  IN IF b.json = "malformed"
       THEN [status |-> 400, data |-> [error |-> "Invalid JSON body"]]
     ELSE IF b.json = "null" \/ b.type \notin {"undefined", "null", "string"}
       THEN [status |-> 500, exception |-> "TypeError"]
     ELSE IF text = <<>>
       THEN [status |-> 400, data |-> [error |-> "Missing \"text\""]]
     ELSE [status |-> 200,
           data |-> [ai_probability |-> scored.ai_probability,
                     confidence |-> scored.confidence,
                     signals |-> signals,
                     notes |-> scored.notes]]

\* a step of the handler reads and writes the fields of one request only
OneRequestStep ==
  \E r \in Reqs :
    \A q \in Reqs \ {r} :
      /\ pc'[q] = pc[q] /\ body'[q] = body[q]
      /\ resp'[q] = resp[q] /\ calls'[q] = calls[q]

\* C13: in every interleaving of the requests, the response to each
\* request is the response that request gets when it is processed alone,
\* and no step of one request changes anything of another request.
C13_NoInterference ==
  /\ [](\A r \in Reqs : Done(r) => resp[r] = AloneResponse(body[r]))
  /\ [][OneRequestStep]_vars

\* two requests with different texts have been scored while both were in
\* flight
C13_Witness ==
  \E r1, r2 \in Reqs :
    /\ r1 # r2 /\ Ok(r1) /\ Ok(r2)
    /\ Stripped(body[r1].chars) # Stripped(body[r2].chars)
    /\ resp[r1].data.signals # resp[r2].data.signals

\* C17: for any parsed JSON body, null, a non-object, an object without
\* text and an object whose text is not a string included, the handler
\* ends with 400 'Invalid JSON body', with 400 'Missing "text"' or with 200
\* and a scored result; no exception leaves the handler.
C17_ThreeOutcomes ==
  \A r \in Reqs :
    Done(r) =>
      \/ resp[r] = [status |-> 400, data |-> [error |-> "Invalid JSON body"]]
      \/ resp[r] = [status |-> 400, data |-> [error |-> "Missing \"text\""]]
      \/ /\ resp[r].status = 200
         /\ "ai_probability" \in DOMAIN resp[r].data

(***************************************************************************)
(* Properties of the calibration mode (SpecCalibration).                   *)
(***************************************************************************)
\* the signal vector and the four scores a scored response was computed
\* from, whatever its mode
ComputedBy(r) ==
  LET d == resp[r].data
  IN IF modeOf(body[r]) = "calibration"
       THEN [signals |-> d.signals,
             heuristic |-> d.scores.heuristic,
             zippy |-> d.scores.zippy,
             detectgpt |-> d.scores.detectgpt,
             ensemble |-> d.scores.ensemble]
       ELSE [signals |-> [f \in DOMAIN d.signals
                            \ {"zippy_score", "detectgpt_stability"} |->
                            d.signals[f]],
             heuristic |-> HeuristicOf(r),
             zippy |-> d.signals.zippy_score,
             detectgpt |-> d.signals.detectgpt_stability,
             ensemble |-> d.ai_probability]

ScoredText(t) ==
  eval.from = "text" /\ eval.stage = "scored" /\ eval.text = t

\* C15: the text of 400 times "the.", written without or with a space
\* between the repetitions, has 400 tokens, a repetition within 0.01 of 1,
\* a unique_word_ratio within 0.01 of 0 and burstiness 0; its heuristic
\* score is at least 0.80 and its label is "high".
C15_RepeatedWordHigh ==
  \A t \in {The400, The400Spaced} :
    ScoredText(t) =>
      /\ eval.signals.length = 400
      /\ eval.signals.repetition \in (Scale - 10)..Scale
      /\ eval.signals.unique_word_ratio \in 0..10
      /\ eval.signals.burstiness = 0
      /\ eval.scored.ai_probability >= 800
      /\ eval.scored.confidence = "high"

\* the text with one "the." per sentence has been scored: 400 sentences
C15_Witness ==
  /\ ScoredText(The400Spaced)
  /\ Len(eval.sentences) = 400
  /\ Len(eval.words) = 400

\* C16: "Cats sleep most of day" has 5 tokens; its length factor is 0, its
\* heuristic score is its raw weighted sum times 0.55, the score is below
\* 0.80 and the label is "low" or "medium".
C16_ShortSentenceDamped ==
  ScoredText(Cats) =>
    /\ eval.signals.length = 5
    /\ lengthFactor(eval.signals.length) = 0
    /\ eval.scored.ai_probability = (raw(eval.signals) * 550) \div Scale
    /\ eval.scored.ai_probability < 800
    /\ eval.scored.confidence \in {"low", "medium"}

\* the sentence has been scored: one sentence, the words lower-cased, a
\* raw sum above 0
C16_Witness ==
  /\ ScoredText(Cats)
  /\ Len(eval.sentences) = 1
  /\ eval.words[1] = <<"c", "a", "t", "s">>
  /\ raw(eval.signals) > 0

(***************************************************************************)
(* The formula of scoreAI (SpecScore) and the burstiness of few            *)
(* sentences (SpecText).                                                   *)
(***************************************************************************)
ScoredVector == eval.from = "vector" /\ eval.stage = "scored"

\* C18: the heuristic score is clamp01(raw x (0.55 + 0.45 x lengthFactor))
\* with raw = 0.34 lowBurst + 0.26 rep + 0.20 lowUnique + 0.10 punctMid
\* + 0.10 wordLenMid; each of the five sub-scores is in [0, 1], and so is
\* raw.
C18_WeightedSum ==
  ScoredVector =>
    LET v == eval.signals
        sum == (340 * lowBurst(v) + 260 * rep(v) + 200 * lowUnique(v)
                  + 100 * punctMid(v) + 100 * wordLenMid(v)) \div Scale
        factor == 550 + (450 * lengthFactor(v.length)) \div Scale
    IN /\ {lowBurst(v), rep(v), lowUnique(v), punctMid(v), wordLenMid(v)}
            \subseteq Unit
       /\ sum \in Unit
       /\ eval.scored.ai_probability =
            Max(0, Min(Scale, (sum * factor) \div Scale))

\* a vector whose five sub-scores differ from one another, scored with a
\* length factor strictly between 0 and 1
C18_Witness ==
  /\ ScoredVector
  /\ LET v == eval.signals
     IN /\ Cardinality({lowBurst(v), rep(v), lowUnique(v), punctMid(v),
                         wordLenMid(v)}) = 5
        /\ lengthFactor(v.length) \in 1..(Scale - 1)
        /\ eval.scored.ai_probability \in 1..(Scale - 1)

\* C19: for a given raw sum the score is 0.55 x raw at every length up to
\* 40 and raw at every length from 300 on
C19_Ends ==
  ScoredVector =>
    /\ eval.signals.length <= 40 =>
         eval.scored.ai_probability = (550 * raw(eval.signals)) \div Scale
    /\ eval.signals.length >= 300 =>
         eval.scored.ai_probability = raw(eval.signals)

\* C19: when only the length rises, the score does not fall
C19_Step ==
  SameBut("length") /\ eval.signals.length < eval'.signals.length
  => eval'.scored.ai_probability >= eval.scored.ai_probability

\* C19: length dampening: the score is 0.55 x raw up to 40 tokens, raw from
\* 300 tokens on, and non-decreasing in the length in between.
C19_LengthDampening == [](C19_Ends) /\ [][C19_Step]_vars

\* a vector of 170 tokens scores strictly between what it scores at 40
\* tokens and what it scores at 300
C19_Witness ==
  /\ ScoredVector
  /\ eval.signals.length = 170
  /\ eval.scored.ai_probability >
       scoreAI([eval.signals EXCEPT !.length = 40]).ai_probability
  /\ eval.scored.ai_probability <
       scoreAI([eval.signals EXCEPT !.length = 300]).ai_probability

\* the sentences of the text that have a token
TokenSentences ==
  {i \in 1..Len(eval.sentences) : tokenizeWords(eval.sentences[i]) # <<>>}

\* C20: a text with fewer than 2 sentences that have a token, the
\* sentences without a token not counted, has burstiness 0.
C20_FewSentencesNoBurst ==
  (eval.from = "text" /\ eval.stage \in {"signals", "scored"}
     /\ Cardinality(TokenSentences) < 2)
  => eval.signals.burstiness = 0

\* a text of two sentences of which one has a token
C20_Witness ==
  /\ eval.from = "text" /\ eval.stage \in {"signals", "scored"}
  /\ Len(eval.sentences) = 2
  /\ Cardinality(TokenSentences) = 1
  /\ eval.signals.burstiness = 0

(***************************************************************************)
(* repetition, splitSentences and unique_word_ratio on texts (SpecText).   *)
(***************************************************************************)
HasSignalsOfText == eval.from = "text" /\ eval.stage \in {"signals", "scored"}

\* the occurrences in words of a token that occurs earlier in words
Repeats(words) ==
  {i \in 1..Len(words) : \E j \in 1..(i - 1) : words[j] = words[i]}

\* C21: repetition is the number of token occurrences that repeat a token
\* seen earlier (the sum over the distinct tokens of frequency - 1)
\* divided by the token count, within [0, 1], and 0 when there is no token.
C21_RepetitionFormula ==
  HasSignalsOfText =>
    /\ eval.signals.repetition \in Unit
    /\ eval.signals.repetition =
         IF eval.words = <<>> THEN 0
         ELSE (Cardinality(Repeats(eval.words)) * Scale) \div Len(eval.words)

\* a text in which two different tokens occur twice each
C21_Witness ==
  /\ HasSignalsOfText
  /\ Len(eval.words) = 4
  /\ Cardinality({eval.words[i] : i \in 1..4}) = 2
  /\ eval.signals.repetition = Scale \div 2

\* the characters of s that are not whitespace, in their order
NonSpace(s) == SelectSeq(s, LAMBDA c : c \notin Whitespace)

\* C22: every sentence splitSentences returns is non-empty and neither
\* starts nor ends with whitespace; the sentences are in the order of the
\* text; every sentence but the last ends with ".", "!" or "?".
C22_SentenceShape ==
  Segmented =>
    LET sentences == eval.sentences
    IN /\ \A i \in 1..Len(sentences) :
            /\ sentences[i] # <<>>
            /\ sentences[i][1] \notin Whitespace
            /\ sentences[i][Len(sentences[i])] \notin Whitespace
       /\ NonSpace(Flatten(sentences)) = NonSpace(eval.text)
       /\ \A i \in 1..(Len(sentences) - 1) :
            sentences[i][Len(sentences[i])] \in {".", "!", "?"}

\* a text of three sentences or more whose last one has no terminator and
\* that has whitespace inside a sentence
C22_Witness ==
  /\ Segmented
  /\ Len(eval.sentences) >= 3
  /\ eval.sentences[Len(eval.sentences)][Len(eval.sentences[Len(eval.sentences)])]
       \notin {".", "!", "?"}
  /\ \E i \in 1..Len(eval.sentences) :
       \E k \in 1..Len(eval.sentences[i]) : eval.sentences[i][k] = " "

\* C23: for a text with at least one token, repetition + unique_word_ratio
\* is 1: the repeats are the tokens less the distinct tokens.  Each of the
\* two quotients is rounded down to the resolution 1 / Scale, so the sum
\* is 1 when the divisions are exact and one step below when they are not.
C23_RepetitionPlusUnique ==
  (HasSignalsOfText /\ Len(eval.words) >= 1) =>
    LET length == Len(eval.words)
        distinct == Cardinality({eval.words[i] : i \in 1..length})
        sum == eval.signals.repetition + eval.signals.unique_word_ratio
    IN /\ Cardinality(Repeats(eval.words)) = length - distinct
       /\ eval.signals.repetition = ((length - distinct) * Scale) \div length
       /\ eval.signals.unique_word_ratio = (distinct * Scale) \div length
       /\ sum = IF (distinct * Scale) % length = 0 THEN Scale ELSE Scale - 1

\* a text of three tokens of which two are the same
C23_Witness ==
  /\ HasSignalsOfText
  /\ Len(eval.words) = 3
  /\ Cardinality({eval.words[i] : i \in 1..3}) = 2
  /\ eval.signals.repetition > 0

(***************************************************************************)
(* Properties of the pages (SpecUI, FairSpecUI).                           *)
(***************************************************************************)
\* the step starts a scan: one more is in flight after it
ScanStarts == Len(ui'.scans) > Len(ui.scans)
\* the step ends a scan
ScanEnds == Len(ui'.scans) < Len(ui.scans)

\* C24: in each page at most one scan is in flight; loading is true as
\* long as one is; no scan starts while loading is true.
C24_OneScanInFlight ==
  /\ [](ui.variant # "none" =>
         /\ Len(ui.scans) <= 1
         /\ ui.loading <=> Len(ui.scans) = 1)
  /\ [][ScanStarts => ~ui.loading /\ ui.scans = <<>> /\ ui'.loading]_vars

\* a scan of the analyze page is in flight and the text has been changed
\* since it was sent
C24_Witness ==
  /\ ui.variant = "analyze"
  /\ ui.loading
  /\ Len(ui.scans) = 1
  /\ ui.scans[1].text # Stripped(ui.text)

\* C25: a scan that has set loading to true sets it back to false,
\* whatever its fetch comes to; every step that ends a scan, on any of its
\* paths, leaves loading false.
C25_LoadingReset ==
  /\ [](ui.variant # "none" /\ ui.loading => <>(~ui.loading))
  /\ [][ScanEnds => ~ui'.loading]_vars

\* a scan of the runScan page of App.tsx has ended on an exception
C25_Witness ==
  /\ ui.variant = "runScan"
  /\ ~ui.loading
  /\ ui.scans = <<>>
  /\ ui.requests = 1
  /\ ui.error = "Network error."

\* seq is the first elements of <<"text", "input", "content", "text mode">>
CandidatePrefix(seq) ==
  /\ Len(seq) \in 1..4
  /\ seq = SubSeq(<<"text", "input", "content", "text mode">>, 1, Len(seq))

\* C26: apiDetect sends { text }, { input }, { content }, { text, mode } in
\* that order and no more than these four; it sends the next one only
\* after a failure; it returns the first response that is 2xx with a
\* numeric score, and ok = false only after four failures.
C26_Inv ==
  ui.variant = "embedded" =>
    /\ \A i \in 1..Len(ui.scans) : CandidatePrefix(ui.scans[i].sent)
    /\ ui.requests <= 4
    /\ ui.api.ret # NoResult =>
         /\ CandidatePrefix(ui.api.sent)
         /\ ~ui.api.ret.ok =>
              /\ Len(ui.api.sent) = 4
              /\ ui.api.ret.error \in
                   {"HTTP 500", "No score in response", "Network error"}

C26_Step ==
  (ui.variant = "embedded" /\ Len(ui.scans) = 1 /\ Len(ui'.scans) = 1
     /\ ui'.scans[1].sent # ui.scans[1].sent)
  => /\ Len(ui'.scans[1].sent) = Len(ui.scans[1].sent) + 1
     /\ ui'.scans[1].lastErr # ""
     /\ ui'.api = ui.api

C26_CandidateOrder == [](C26_Inv) /\ [][C26_Step]_vars

\* apiDetect has returned the response to its third candidate
C26_Witness ==
  /\ ui.variant = "embedded"
  /\ ui.api.ret # NoResult
  /\ ui.api.ret.ok
  /\ ui.api.sent = <<"text", "input", "content">>

\* C27: after a failed apiDetect the displayed result is the one of
\* localHeuristic (ok = true), and the last of its notes is 'API error: '
\* followed by the error the failed call reported.
C27_FallbackMessage ==
  (ui.variant = "embedded" /\ ui.result # NoResult
     /\ ui.api.ret # NoResult /\ ~ui.api.ret.ok)
  => /\ ui.result.ok
     /\ ui.result.model = "local-heuristic"
     /\ ui.result.notes[Len(ui.result.notes)]
          = <<"API error: ", ui.api.ret.error>>

\* C28: a click on a page whose scan mode is not offered yet or whose text
\* is empty after trimming (analyze), or whose text has fewer than 10
\* words (runScan of App.tsx), sends no request, leaves loading false and
\* sets an error message.
C28_Step ==
  (\/ /\ analyze
      /\ \/ ui.mode \in {"plagiarism", "hallucinations",
                          "writing_feedback", "custom"}
         \/ Blank(ui.text)
   \/ /\ runScan
      /\ countWords(ui.text) < 10)
  => /\ ui'.scans = ui.scans
     /\ ui'.requests = 0
     /\ ~ui'.loading
     /\ ui'.error # Null

C28_LocalRejection == [][C28_Step]_vars

\* the runScan page has refused a text of 9 words
C28_Witness ==
  /\ ui.variant = "runScan"
  /\ countWords(ui.text) = 9
  /\ ui.error = "Paste more text"
  /\ ui.requests = 0
  /\ ~ui.loading

\* C29: the history never holds more than its cap (25 for analyze, 10
\* for the embedded page), no two of its entries have the same id, and
\* it is ordered most recent first with the latest recorded scan at its
\* head.
C29_HistoryShape ==
  ui.variant \in {"analyze", "embedded"} =>
    LET h == ui.history
    IN /\ Len(h) <= (IF ui.variant = "analyze" THEN 25 ELSE 10)
       /\ \A i, j \in 1..Len(h) : i # j => h[i].id # h[j].id
       /\ \A i, j \in 1..Len(h) : i < j => h[i].ts > h[j].ts
       /\ h # <<>> => h[1].id = ui.clock

\* the history of the analyze page is full and has dropped an entry
C29_Witness ==
  /\ ui.variant = "analyze"
  /\ Len(ui.history) = 25
  /\ ui.history[25].id > 1

\* the step ends a scan of the analyze page on a 2xx response
Succeeds ==
  ScanEnds /\ ui'.error = Null /\ ui'.result # NoResult
    /\ "ai_probability" \in DOMAIN ui'.result

\* C30: on the analyze page a step puts an entry into the history exactly
\* when it ends a scan on a 2xx response and that scan was started with
\* calibration off; a scan that fails, a click that is refused and a
\* calibration scan leave the history as it is.
C30_Step ==
  ui.variant = "analyze" =>
    /\ (Succeeds /\ ~ui.scans[1].calibrating)
         => /\ ui'.history # <<>>
            /\ ui'.history[1].id \notin
                 {ui.history[k].id : k \in 1..Len(ui.history)}
            /\ Tail(ui'.history)
                 = SubSeq(ui.history, 1, Len(ui'.history) - 1)
    /\ ~(Succeeds /\ ~ui.scans[1].calibrating)
         => (ui'.history = ui.history \/ ui'.history = <<>>)
    /\ (ScanEnds \/ analyze) => (ui'.history # <<>> \/ ui.history = <<>>)

C30_HistoryOnlyOnSuccess == [][C30_Step]_vars

\* a calibration scan has been scored and the history is still empty
C30_Witness ==
  /\ ui.variant = "analyze"
  /\ ~ui.loading
  /\ ui.result # NoResult
  /\ "ai_probability" \in DOMAIN ui.result
  /\ ui.clock = 0
  /\ ui.history = <<>>

====
